---- MODULE Spec2Model ----
\* A model of src/functions.py: parallel_process (the parallel map over a
\* ProcessPoolExecutor) and the JSON persistence pair write_to_json /
\* read_from_json.
EXTENDS Integers, Sequences, FiniteSets, TLC

\* ------------------------------------------------------------------ bounds
MaxLen == 3      \* longest input list `data`
MaxVal == 2      \* input items are 1..MaxVal
MaxCpus == 2     \* largest value os.cpu_count() reports

\* ------------------------------------------------------- python values
\* Python values are tagged tuples, so that None, integers, strings and
\* containers never compare equal to one another.
PyNone == <<"None">>
PyInt(n) == <<"int", n>>

Values == 1..MaxVal

\* What one invocation func(x) does in the worker process: it returns a value
\* (here x*x, or None), raises an Exception, raises a BaseException that is
\* not an Exception (SystemExit, KeyboardInterrupt), or never finishes.
OutcomesOf(x) == {<<"return", PyInt(x * x)>>, <<"return", PyNone>>,
                  <<"Exception">>, <<"BaseException">>, <<"hang">>}
Outcomes == UNION {OutcomesOf(x) : x \in Values}

\* the functions a caller may pass: each item has one outcome (func is pure)
Funcs == {f \in [Values -> Outcomes] : \A x \in Values : f[x] \in OutcomesOf(x)}

Square == [x \in Values |-> <<"return", PyInt(x * x)>>]

Min(a, b) == IF a <= b THEN a ELSE b

SeqsUpTo(S, n) == UNION {[1..k -> S] : k \in 0..n}

\* ------------------------------------------------------------ JSON text
MaxItems == 2    \* longest list, tuple or dict written to a file

PyStr(s) == <<"str", s>>
PyList(items) == <<"list", items>>
PyTuple(items) == <<"tuple", items>>
PyDict(pairs) == <<"dict", pairs>>      \* pairs <<key, value>>, insertion order

\* The values handed to write_to_json: scalars, flat containers of scalars,
\* and containers holding one flat container.
Scalars == {PyNone, PyInt(1), PyStr("1")}
DictKeys == {PyInt(1), PyStr("1")}
ListsOf(S) == {PyList(q) : q \in SeqsUpTo(S, MaxItems)}
TuplesOf(S) == {PyTuple(q) : q \in SeqsUpTo(S, MaxItems)}
KeySeqs == {q \in SeqsUpTo(DictKeys, MaxItems) :
              \A i, j \in 1..Len(q) : i # j => q[i] # q[j]}
DictsOf(S) ==
  {PyDict([i \in 1..Len(ks) |-> <<ks[i], vs[i]>>]) :
     <<ks, vs>> \in {p \in KeySeqs \X SeqsUpTo(S, MaxItems) :
                       Len(p[1]) = Len(p[2])}}
FlatContainers == ListsOf(Scalars) \cup TuplesOf(Scalars) \cup DictsOf(Scalars)
NestedContainers ==
  {PyList(<<c>>) : c \in FlatContainers}
    \cup {PyTuple(<<c>>) : c \in FlatContainers}
    \cup {PyDict(<<<<k, c>>>>) : k \in DictKeys, c \in FlatContainers}
JsonData == Scalars \cup FlatContainers \cup NestedContainers

\* The text of a file is a sequence of tokens.
Punct(c) == <<"p", c>>
Num(n) == <<"num", n>>           \* the decimal literal of n
Str(s) == <<"string", s>>        \* the quoted string s
Null == <<"null">>
NL(n) == <<"nl", n>>             \* a newline followed by n spaces
SP == <<"sp">>                   \* one space

Digits == <<"0", "1", "2", "3", "4", "5", "6", "7", "8", "9">>
RECURSIVE IntStr(_)
IntStr(n) == IF n < 10 THEN Digits[n + 1]
             ELSE IntStr(n \div 10) \o Digits[(n % 10) + 1]

\* json.dumps turns every dict key into a string
KeyStr(k) == IF k[1] = "str" THEN k[2] ELSE IntStr(k[2])

\* json.dumps(data, indent=2): lists and tuples both become arrays, every
\* item on its own line, indented by two spaces per nesting level.
RECURSIVE Encode(_, _), EncodeItems(_, _), EncodeMembers(_, _)
Encode(v, ind) ==
  CASE v[1] = "None" -> <<Null>>
    [] v[1] = "int" -> <<Num(v[2])>>
    [] v[1] = "str" -> <<Str(v[2])>>
    [] v[1] \in {"list", "tuple"} ->
         IF v[2] = <<>> THEN <<Punct("["), Punct("]")>>
         ELSE <<Punct("[")>> \o EncodeItems(v[2], ind + 2)
                \o <<NL(ind), Punct("]")>>
    [] v[1] = "dict" ->
         IF v[2] = <<>> THEN <<Punct("{"), Punct("}")>>
         ELSE <<Punct("{")>> \o EncodeMembers(v[2], ind + 2)
                \o <<NL(ind), Punct("}")>>
EncodeItems(items, ind) ==
  IF items = <<>> THEN <<>>
  ELSE <<NL(ind)>> \o Encode(Head(items), ind)
         \o (IF Len(items) > 1 THEN <<Punct(",")>> ELSE <<>>)
         \o EncodeItems(Tail(items), ind)
EncodeMembers(pairs, ind) ==
  IF pairs = <<>> THEN <<>>
  ELSE <<NL(ind), Str(KeyStr(Head(pairs)[1])), Punct(":"), SP>>
         \o Encode(Head(pairs)[2], ind)
         \o (IF Len(pairs) > 1 THEN <<Punct(",")>> ELSE <<>>)
         \o EncodeMembers(Tail(pairs), ind)

dumps(v) == Encode(v, 0)

\* d[k] = v on a dict: a key already present keeps its place, gets the value
DictSet(pairs, k, v) ==
  IF \E i \in 1..Len(pairs) : pairs[i][1] = k
    THEN [i \in 1..Len(pairs) |->
            IF pairs[i][1] = k THEN <<k, v>> ELSE pairs[i]]
    ELSE Append(pairs, <<k, v>>)

IsPunct(t, p, c) == p <= Len(t) /\ t[p][1] = "p" /\ t[p][2] = c

RECURSIVE SkipWs(_, _)
SkipWs(t, p) ==
  IF p <= Len(t) /\ t[p][1] \in {"nl", "sp"} THEN SkipWs(t, p + 1) ELSE p

\* The JSON decoder: a parse yields <<"ok", value, next position>> or
\* <<"err">>; arrays become lists, objects become dicts with string keys.
DecodeErr == <<"err">>
RECURSIVE Decode(_, _), DecodeArray(_, _, _), DecodeObject(_, _, _)
Decode(t, p) ==
  IF p > Len(t) THEN DecodeErr
  ELSE CASE t[p][1] = "null" -> <<"ok", PyNone, p + 1>>
         [] t[p][1] = "num" -> <<"ok", PyInt(t[p][2]), p + 1>>
         [] t[p][1] = "string" -> <<"ok", PyStr(t[p][2]), p + 1>>
         [] IsPunct(t, p, "[") ->
              LET q == SkipWs(t, p + 1)
              IN IF IsPunct(t, q, "]") THEN <<"ok", PyList(<<>>), q + 1>>
                 ELSE DecodeArray(t, q, <<>>)
         [] IsPunct(t, p, "{") ->
              LET q == SkipWs(t, p + 1)
              IN IF IsPunct(t, q, "}") THEN <<"ok", PyDict(<<>>), q + 1>>
                 ELSE DecodeObject(t, q, <<>>)
         [] OTHER -> DecodeErr
\* p is where the next item starts
DecodeArray(t, p, acc) ==
  LET r == Decode(t, p)
  IN IF r[1] # "ok" THEN DecodeErr
     ELSE LET q == SkipWs(t, r[3])
              items == Append(acc, r[2])
          IN CASE IsPunct(t, q, "]") -> <<"ok", PyList(items), q + 1>>
               [] IsPunct(t, q, ",") -> DecodeArray(t, SkipWs(t, q + 1), items)
               [] OTHER -> DecodeErr
\* p is where the next key starts
DecodeObject(t, p, acc) ==
  IF ~(p <= Len(t) /\ t[p][1] = "string") THEN DecodeErr
  ELSE LET c == SkipWs(t, p + 1)
       IN IF ~IsPunct(t, c, ":") THEN DecodeErr
          ELSE LET r == Decode(t, SkipWs(t, c + 1))
               IN IF r[1] # "ok" THEN DecodeErr
                  ELSE LET q == SkipWs(t, r[3])
                           pairs == DictSet(acc, PyStr(t[p][2]), r[2])
                       IN CASE IsPunct(t, q, "}") ->
                                 <<"ok", PyDict(pairs), q + 1>>
                            [] IsPunct(t, q, ",") ->
                                 DecodeObject(t, SkipWs(t, q + 1), pairs)
                            [] OTHER -> DecodeErr

\* json.loads(contents): one value, then nothing but whitespace
JSONDecodeError == <<"JSONDecodeError">>
loads(t) ==
  LET r == Decode(t, SkipWs(t, 1))
  IN IF r[1] # "ok" THEN JSONDecodeError
     ELSE IF SkipWs(t, r[3]) # Len(t) + 1 THEN JSONDecodeError
     ELSE r[2]

\* ------------------------------------------------------------------ state
VARIABLES
  func,         \* the function passed in: item -> what invoking it does
  data,         \* the input list
  cpus,         \* what os.cpu_count() returns: None or a count
  pc,           \* position of the caller inside parallel_process
  num_workers,  \* max_workers of the pool (0 while none was computed)
  pool,         \* TRUE once ProcessPoolExecutor(num_workers) was constructed
  futures,      \* the dict `futures`: key of a future -> idx
  fstate,       \* per index: state of the future ("NONE" before submit)
  calls,        \* per index: number of invocations of func so far
  yielded,      \* the futures as_completed has yielded, in order
  writes,       \* the assignments results[slot] made so far, in order, each
                \* as <<slot, idx of the task whose result was stored>>
  results,      \* the list `results` (<<>> before line 74 ran)
  ret,          \* how the call ended: "unset", "None", "results",
                \* "ValueError", "BaseException"
  fs,           \* per file name: <<"absent">> or <<"file", text>>
  written,      \* per file name: the data of the latest write_to_json
  overwrote,    \* the latest write replaced a text longer than its own
  loaded        \* how the latest read_from_json since then ended

pvars == <<func, data, cpus, pc, num_workers, pool, futures, fstate, calls,
           yielded, writes, results, ret>>
jvars == <<fs, written, overwrote, loaded>>
vars == <<pvars, jvars>>

Idx == 1..Len(data)

CpuCounts == {PyNone} \cup {PyInt(n) : n \in 1..MaxCpus}

\* line 60: num_cpus != None and num_cpus >= 2
CpuOkLoose(c) == c # PyNone
CpuOk(c) == c # PyNone /\ c[2] >= 2

\* line 61: min(len(data), num_cpus)
NumWorkersNoMin(d, c) == c[2]
NumWorkers(d, c) == Min(Len(d), c[2])

FileNames == {"Square.json"}

\* no file written yet, nothing read
JsonInit ==
  /\ fs = [f \in FileNames |-> <<"absent">>]
  /\ written = [f \in FileNames |-> <<"nothing">>]
  /\ overwrote = FALSE
  /\ loaded = <<"unset">>

\* a call of parallel_process(func, data) is about to start
Init ==
  /\ JsonInit
  /\ func \in Funcs
  /\ data \in SeqsUpTo(Values, MaxLen)
  /\ cpus \in CpuCounts
  /\ pc = "cpu_count"
  /\ num_workers = 0
  /\ pool = FALSE
  /\ futures = <<>>
  /\ fstate = [i \in Idx |-> "NONE"]
  /\ calls = [i \in Idx |-> 0]
  /\ yielded = <<>>
  /\ writes = <<>>
  /\ results = <<>>
  /\ ret = "unset"

\* lines 59-64: the hardware check
CheckCpus ==
  /\ pc = "cpu_count"
  /\ IF CpuOk(cpus)
       THEN /\ num_workers' = NumWorkers(data, cpus)
            /\ pc' = "pool"
            /\ ret' = ret
       ELSE /\ num_workers' = num_workers
            /\ pc' = "done"
            /\ ret' = "None"
  /\ UNCHANGED <<jvars, futures, writes, func, data, cpus, pool, fstate,
                 calls, yielded, results>>

\* line 67: ProcessPoolExecutor(num_workers); max_workers <= 0 raises
\* ValueError out of the constructor, so the with block is never entered.
CreatePool ==
  /\ pc = "pool"
  /\ IF num_workers <= 0
       THEN /\ pc' = "done"
            /\ ret' = "ValueError"
            /\ pool' = pool
       ELSE /\ pc' = "submit"
            /\ ret' = ret
            /\ pool' = TRUE
  /\ UNCHANGED <<jvars, futures, writes, func, data, cpus, num_workers,
                 fstate, calls, yielded, results>>

Submitted == {i \in Idx : fstate[i] # "NONE"}

\* d[k] = v on the dict d
DictPut(d, k, v) ==
  [x \in DOMAIN d \cup {k} |-> IF x = k THEN v ELSE d[x]]

\* line 71: the dict key of the future submit returns for data[idx] = date.
\* A Future hashes by identity and every submit makes a new one, so the key
\* is as individual as the submission.
FutureKeyByValue(idx, date) == date
FutureKey(idx, date) == idx

\* line 71: one executor.submit(func, date) of the dict comprehension, in
\* enumerate order, and the entry future -> idx it adds to the dict.
Submit ==
  /\ pc = "submit"
  /\ Submitted # Idx
  /\ LET i == Cardinality(Submitted) + 1
     IN /\ fstate' = [fstate EXCEPT ![i] = "PENDING"]
        /\ futures' = DictPut(futures, FutureKey(i, data[i]), i)
  /\ UNCHANGED <<jvars, writes, func, data, cpus, pc, num_workers, pool,
                 calls, yielded, results, ret>>

\* line 74: results = [None] * len(data), after the comprehension is complete
MakeResults ==
  /\ pc = "submit"
  /\ Submitted = Idx
  /\ results' = [i \in Idx |-> PyNone]
  /\ pc' = "as_completed"
  /\ UNCHANGED <<jvars, futures, writes, func, data, cpus, num_workers, pool,
                 fstate, calls, yielded, ret>>

Running == {i \in Idx : fstate[i] = "RUNNING"}

\* line 71: submit queues one work item per future; the workers take the
\* items off the pool's call queue in the order of submission, each once
TakeableAgain(i) == fstate[i] \in {"PENDING", "RUNNING"}
Takeable(i) ==
  fstate[i] = "PENDING" /\ \A j \in 1..(i - 1) : fstate[j] # "PENDING"

\* A worker process of the pool takes a pending work item and invokes func on
\* it; the pool never has more than max_workers processes.
WorkerStart(i) ==
  /\ pool
  /\ Takeable(i)
  /\ Cardinality(Running) < num_workers
  /\ fstate' = [fstate EXCEPT ![i] = "RUNNING"]
  /\ calls' = [calls EXCEPT ![i] = @ + 1]
  /\ UNCHANGED <<jvars, futures, writes, func, data, cpus, pc, num_workers,
                 pool, yielded, results, ret>>

\* The invocation ends (by returning or raising) and the worker sends the
\* outcome back; an invocation that hangs never does.
WorkerFinish(i) ==
  /\ fstate[i] = "RUNNING"
  /\ func[data[i]] # <<"hang">>
  /\ fstate' = [fstate EXCEPT ![i] = "FINISHED"]
  /\ UNCHANGED <<jvars, futures, writes, func, data, cpus, pc, num_workers,
                 pool, calls, yielded, results, ret>>

InRange(s) == {s[k] : k \in 1..Len(s)}

\* line 76: as_completed is exhausted once it has yielded every future
LoopDoneEarly == \A i \in Idx : fstate[i] = "FINISHED" => i \in InRange(yielded)
LoopDone == InRange(yielded) = DOMAIN futures

\* line 80: the slot written for the n-th yielded future, whose index is idx
StoreIndexByCompletion(idx, n) == n
StoreIndex(idx, n) == idx

\* line 76: as_completed yields a future once
YieldableAgain(k) == TRUE
Yieldable(k) == k \notin InRange(yielded)

\* lines 81-82: the handler prints and leaves the list as it is
OnExceptionMark(res, idx) == [res EXCEPT ![idx] = <<"Failure">>]
OnException(res, idx) == res

\* lines 76-82: one iteration of the for loop over as_completed(futures), for
\* the finished future with key k
Collect(k) ==
  /\ pc = "as_completed"
  /\ fstate[futures[k]] = "FINISHED"
  /\ Yieldable(k)
  /\ yielded' = Append(yielded, k)
  /\ LET idx == futures[k]
         o == func[data[idx]]
         n == Len(yielded) + 1
     IN CASE o[1] = "return" ->
               /\ results' = [results EXCEPT ![StoreIndex(idx, n)] = o[2]]
               /\ writes' = Append(writes, <<StoreIndex(idx, n), idx>>)
               /\ pc' = pc
               /\ ret' = ret
          [] o[1] = "Exception" ->
               \* caught by `except Exception`
               /\ results' = OnException(results, idx)
               /\ writes' = writes
               /\ pc' = pc
               /\ ret' = ret
          [] OTHER ->
               \* not an Exception: leaves the loop and the with block
               /\ results' = results
               /\ writes' = writes
               /\ pc' = "exit"
               /\ ret' = "BaseException"
  /\ UNCHANGED <<jvars, func, data, cpus, num_workers, pool, futures, fstate,
                 calls>>

\* line 76: as_completed has nothing left to yield, the loop ends
EndLoop ==
  /\ pc = "as_completed"
  /\ LoopDone
  /\ pc' = "exit"
  /\ ret' = "results"
  /\ UNCHANGED <<jvars, futures, writes, func, data, cpus, num_workers, pool,
                 fstate, calls, yielded, results>>

\* line 67 (with ... as executor): __exit__ is shutdown(wait=True), which
\* returns once every submitted work item has been executed; then line 83
\* returns, or the pending exception propagates.
ExitWith ==
  /\ pc = "exit"
  /\ \A i \in Idx : fstate[i] = "FINISHED"
  /\ pc' = "done"
  /\ UNCHANGED <<jvars, futures, writes, func, data, cpus, num_workers, pool,
                 fstate, calls, yielded, results, ret>>

Next ==
  \/ CheckCpus
  \/ CreatePool
  \/ Submit
  \/ MakeResults
  \/ \E i \in Idx : WorkerStart(i)
  \/ \E i \in Idx : WorkerFinish(i)
  \/ \E k \in DOMAIN futures : Collect(k)
  \/ EndLoop
  \/ ExitWith

Spec == Init /\ [][Next]_vars

\* The caller's thread runs on, and the pool's worker processes are scheduled:
\* a step that stays possible is eventually taken.
FairSpec ==
  /\ Spec
  /\ WF_vars(CheckCpus \/ CreatePool \/ Submit \/ MakeResults \/ EndLoop
               \/ ExitWith \/ \E k \in DOMAIN futures : Collect(k))
  /\ WF_vars(\E i \in Idx : WorkerStart(i))
  /\ WF_vars(\E i \in Idx : WorkerFinish(i))

\* ------------------------------------------- write_to_json / read_from_json
\* line 19: open(json_file, "w") creates the file or truncates it
OpenAppend(old) == IF old[1] = "file" THEN old[2] ELSE <<>>
OpenW(old) == <<>>

\* lines 19-21: write_to_json(d, f)
write_to_json(d, f) ==
  /\ pc = "idle"
  /\ LET contents == dumps(d)
     IN /\ fs' = [fs EXCEPT ![f] = <<"file", OpenW(fs[f]) \o contents>>]
        /\ overwrote' = (fs[f][1] = "file" /\ Len(fs[f][2]) > Len(contents))
  /\ written' = [written EXCEPT ![f] = d]
  /\ loaded' = <<"unset">>
  /\ UNCHANGED pvars

\* lines 38-41: read_from_json(f)
read_from_json(f) ==
  /\ pc = "idle"
  /\ loaded' = IF fs[f][1] # "file" THEN <<"raise", f, "FileNotFoundError">>
               ELSE LET d == loads(fs[f][2])
                    IN IF d = JSONDecodeError
                         THEN <<"raise", f, "JSONDecodeError">>
                         ELSE <<"return", f, d>>
  /\ UNCHANGED <<fs, written, overwrote, pvars>>

\* no call of parallel_process is in progress
InitJson ==
  /\ JsonInit
  /\ func = Square
  /\ data = <<>>
  /\ cpus = PyNone
  /\ pc = "idle"
  /\ num_workers = 0
  /\ pool = FALSE
  /\ futures = <<>>
  /\ fstate = <<>>
  /\ calls = <<>>
  /\ yielded = <<>>
  /\ writes = <<>>
  /\ results = <<>>
  /\ ret = "unset"

NextJson ==
  \/ \E d \in JsonData, f \in FileNames : write_to_json(d, f)
  \/ \E f \in FileNames : read_from_json(f)

SpecJson == InitJson /\ [][NextJson]_vars

\* ------------------------------------------------- parallel_process: claims
HwMissing == cpus = PyNone \/ cpus[2] < 2
Returned == pc = "done" /\ ret = "results"
Fails(i) == func[data[i]][1] # "return"

\* C1: when the call returns its list, slot i holds func(data[i]) for every
\* index i whose invocation returned, whatever the order of completion.
C1_Placement ==
  Returned =>
    \A i \in Idx : func[data[i]][1] = "return" => results[i] = func[data[i]][2]

\* x*x over a list whose last task is yielded first
C1_Witness ==
  /\ Returned
  /\ func = Square
  /\ Len(data) >= 2
  /\ data[1] # data[Len(data)]
  /\ yielded[1] = Len(data)
  /\ results = [i \in Idx |-> PyInt(data[i] * data[i])]

\* C2: in the returned list the failure marker (the None placeholder) sits
\* exactly at the indices whose invocation failed, so that the failed indices
\* can be read off the list.
C2_FailureExactlyAtS ==
  Returned => \A i \in Idx : (results[i] = PyNone) <=> Fails(i)

\* C3: a call on the empty list ends by returning the empty list, whatever
\* cpu_count() reports.
C3_EmptyInput ==
  (pc = "done" /\ data = <<>>) => (ret = "results" /\ results = <<>>)

\* C4: without at least two CPUs a call on a non-empty list creates no pool,
\* submits nothing, never invokes func, and ends by returning None.
C4_Unavailable ==
  (HwMissing /\ data # <<>>) =>
    /\ ~pool
    /\ \A i \in Idx : fstate[i] = "NONE" /\ calls[i] = 0
    /\ results = <<>>
    /\ pc = "done" => ret = "None"

C4_Witness ==
  /\ pc = "done"
  /\ cpus = PyInt(1)
  /\ Len(data) >= 2
  /\ ret = "None"

\* C5: a call that returns a list, or that is made on the empty list, ends
\* with a list as long as the input.
C5_LengthPreserved ==
  (pc = "done" /\ (ret = "results" \/ data = <<>>)) =>
    (ret = "results" /\ Len(results) = Len(data))

\* C6: once tasks were submitted, the call ends by returning its list with
\* every task run to its outcome, however an invocation failed.
C6_FailureIsolated ==
  (pc = "done" /\ pool) =>
    (ret = "results" /\ \A i \in Idx : fstate[i] = "FINISHED")

\* C7: the pool never has more than min(len(data), cpu_count()) workers, no
\* more invocations than that run at once, and a one-item list gets a pool of
\* exactly one worker.
C7_WorkerBound ==
  pool =>
    /\ num_workers <= Min(Len(data), cpus[2])
    /\ Cardinality(Running) <= Min(Len(data), cpus[2])
    /\ Len(data) = 1 => num_workers = 1

\* more tasks than CPUs: every worker busy while a task waits
C7_Witness ==
  /\ pool
  /\ Len(data) > cpus[2]
  /\ Cardinality(Running) = cpus[2]
  /\ \E i \in Idx : fstate[i] = "PENDING"

\* C8: the call has ended only if every submitted task has finished (so none
\* of them hangs), and it has returned its list only if the outcome of every
\* task was collected.
C8_ReturnAfterAll ==
  (pc = "done" /\ pool) =>
    \A i \in Idx :
      /\ fstate[i] = "FINISHED"
      /\ func[data[i]] # <<"hang">>
      /\ ret = "results" => i \in InRange(yielded)

C8_Witness ==
  /\ Returned
  /\ Len(data) >= 2
  /\ \E i \in Idx : Fails(i)

\* C10: with at least two CPUs, a non-empty list and no invocation that
\* hangs, a fairly scheduled call eventually returns its list.
C10_EventuallyReturns ==
  (~HwMissing /\ data # <<>> /\ \A i \in Idx : func[data[i]] # <<"hang">>)
    ~> Returned

\* ------------------------------------------------------------ JSON: claims
KeyEq(k1, k2) == k1[1] = k2[1] /\ k1[2] = k2[2]

\* Python's ==: dicts are equal when they hold the same keys with equal values
RECURSIVE PyEq(_, _)
PyEq(a, b) ==
  IF a[1] # b[1] THEN FALSE
  ELSE CASE a[1] = "None" -> TRUE
         [] a[1] \in {"int", "str"} -> a[2] = b[2]
         [] a[1] \in {"list", "tuple"} ->
              /\ Len(a[2]) = Len(b[2])
              /\ \A i \in 1..Len(a[2]) : PyEq(a[2][i], b[2][i])
         [] a[1] = "dict" ->
              /\ Len(a[2]) = Len(b[2])
              /\ \A i \in 1..Len(a[2]) : \E j \in 1..Len(b[2]) :
                   KeyEq(a[2][i][1], b[2][j][1]) /\ PyEq(a[2][i][2], b[2][j][2])

\* the value with every tuple replaced by the list of its items
RECURSIVE AsLists(_)
AsLists(v) ==
  CASE v[1] \in {"list", "tuple"} ->
         PyList([i \in 1..Len(v[2]) |-> AsLists(v[2][i])])
    [] v[1] = "dict" ->
         PyDict([i \in 1..Len(v[2]) |-> <<v[2][i][1], AsLists(v[2][i][2])>>])
    [] OTHER -> v

\* ... and, besides, every dict key replaced by its string; of two keys with
\* the same string the later one's value stays
RECURSIVE AsJsonPairs(_, _), AsJson(_)
AsJsonPairs(pairs, acc) ==
  IF pairs = <<>> THEN acc
  ELSE LET k == PyStr(KeyStr(Head(pairs)[1]))
           kept == SelectSeq(acc, LAMBDA e : e[1] # k)
       IN AsJsonPairs(Tail(pairs), Append(kept, <<k, AsJson(Head(pairs)[2])>>))
AsJson(v) ==
  CASE v[1] \in {"list", "tuple"} ->
         PyList([i \in 1..Len(v[2]) |-> AsJson(v[2][i])])
    [] v[1] = "dict" -> PyDict(AsJsonPairs(v[2], <<>>))
    [] OTHER -> v

\* C9 as stated: a read after any writes returns the data of the latest write
\* of that name, with tuples as lists.
C9_ReadsLatestWrite ==
  (loaded[1] # "unset" /\ written[loaded[2]] # <<"nothing">>) =>
    (loaded[1] = "return" /\ PyEq(loaded[3], AsLists(written[loaded[2]])))

\* C9 amended: a read after any writes returns the data of the latest write of
\* that name, with tuples as lists and dict keys as their strings; nothing of
\* an earlier, longer text remains.
C9_ReadsLatestWriteAsJson ==
  (loaded[1] # "unset" /\ written[loaded[2]] # <<"nothing">>) =>
    (loaded[1] = "return" /\ PyEq(loaded[3], AsJson(written[loaded[2]])))

\* a dict keyed by 1 holding a tuple, written over a longer text and read back
C9_Witness ==
  /\ loaded[1] = "return"
  /\ overwrote
  /\ written[loaded[2]] = PyDict(<<<<PyInt(1), PyTuple(<<PyInt(1)>>)>>>>)
  /\ loaded[3] = PyDict(<<<<PyStr("1"), PyList(<<PyInt(1)>>)>>>>)

\* --------------------------------------------- parallel_process: per task
Occurrences(s, x) == Cardinality({k \in 1..Len(s) : s[k] = x})

\* C11: func is invoked at most once per index, exactly once for every index
\* whose task was taken by a worker, and exactly once per index by the time
\* the call ends; as_completed yields no future twice, and every future
\* exactly once when the list is returned.
C11_ExactlyOnce ==
  pool =>
    \A i \in Idx :
      /\ calls[i] <= 1
      /\ calls[i] = 1 <=> fstate[i] \in {"RUNNING", "FINISHED"}
      /\ Occurrences(yielded, i) <= 1
      /\ pc = "done" => calls[i] = 1
      /\ Returned => Occurrences(yielded, i) = 1

\* three tasks on two workers, two of them for the same item
C11_Witness ==
  /\ Returned
  /\ Len(data) = 3
  /\ data[1] = data[2]
  /\ \A i \in Idx : calls[i] = 1

\* C12: under every order of completion no slot of results is assigned twice,
\* and a slot is assigned only the outcome of the task with that index; the
\* other slots still hold the placeholder.
C12_SlotWrittenOnce ==
  /\ \A a, b \in 1..Len(writes) : a # b => writes[a][1] # writes[b][1]
  /\ \A a \in 1..Len(writes) :
       /\ writes[a][1] = writes[a][2]
       /\ results[writes[a][1]] = func[data[writes[a][2]]][2]
  /\ \A i \in 1..Len(results) :
       (\A a \in 1..Len(writes) : writes[a][1] # i) => results[i] = PyNone

\* two slots assigned, the later slot first
C12_Witness ==
  /\ Len(writes) >= 2
  /\ writes[1][1] > writes[2][1]
  /\ results[writes[1][1]] # PyNone
  /\ results[writes[2][1]] # PyNone

\* C13: every position of data is a task of its own, also when items are
\* equal: the dict maps one future per submitted index, no two futures to the
\* same index; and in the returned list each of two equal items had its own
\* future yielded and, where func returned, its own slot assigned.
C13_DuplicatesIndependent ==
  /\ Cardinality(DOMAIN futures) = Cardinality(Submitted)
  /\ {futures[k] : k \in DOMAIN futures} = Submitted
  /\ \A k1, k2 \in DOMAIN futures : k1 # k2 => futures[k1] # futures[k2]
  /\ Returned =>
       \A i, j \in Idx :
         (i # j /\ data[i] = data[j]) =>
           /\ \E k \in DOMAIN futures : futures[k] = i /\ k \in InRange(yielded)
           /\ ~Fails(i) =>
                /\ \E a \in 1..Len(writes) : writes[a] = <<i, i>>
                /\ results[i] = func[data[i]][2]
                /\ results[j] = results[i]

\* three equal items, each squared into its own slot
C13_Witness ==
  /\ Returned
  /\ Len(data) = 3
  /\ data[1] = data[2] /\ data[2] = data[3]
  /\ Len(writes) = 3
  /\ \A i \in Idx : results[i] = PyInt(data[i] * data[i])

\* C14: the slot of an index whose invocation raised an Exception holds the
\* placeholder None from the creation of the list to its return, so in the
\* returned list it equals the slot of a task whose func returned None.
C14_FailedSlotIsNone ==
  \A i \in 1..Len(results) :
    func[data[i]] = <<"Exception">> =>
      /\ results[i] = PyNone
      /\ Returned =>
           \A j \in Idx :
             func[data[j]] = <<"return", PyNone>> => results[j] = results[i]

\* one task raised, another returned None: both slots read None
C14_Witness ==
  /\ Returned
  /\ \E i, j \in Idx :
       /\ func[data[i]] = <<"Exception">>
       /\ func[data[j]] = <<"return", PyNone>>
       /\ results[i] = PyNone
       /\ results[j] = PyNone

====
